---- MODULE Spec2Model ----
(***************************************************************************)
(* connect-hire: the job board's storage layer (tables, constraints and    *)
(* row-level-security policies of the SQL migrations), the                 *)
(* send-applicant-email edge function, and the client handlers that write  *)
(* to the application ledger.                                              *)
(*                                                                         *)
(* SQL values: a user id is a number in 1..NumUsers and the SQL NULL of a  *)
(* uuid column is 0; a boolean column holds "true", "false" or "null"; a   *)
(* status is a string.  A policy expression admits a row only when it      *)
(* evaluates to true, so a comparison with NULL admits nothing.            *)
(***************************************************************************)
EXTENDS Integers, FiniteSets, Sequences, TLC

\* ------------------------------------------------------------------ bounds
NumUsers == 2
MaxJobs == 3
MaxApps == 2
MaxFormApps == 2
MaxShown == 2
MaxInFlight == 2
MaxRedirects == 3

\* ------------------------------------------------------------------ values
NULL == 0
Users == 1..NumUsers
Callers == Users \cup {NULL}
JobIds == 1..MaxJobs
AppIds == 1..MaxApps
Tabs == {"a", "b"}
\* caps a table the constraints keep smaller anyway
MaxRoleRows == NumUsers + 1

user_role == {"job_seeker", "employer"}
Status == {"pending", "shortlisted", "rejected"}
Bool3 == {"true", "false", "null"}

VARIABLES user_roles, jobs, job_applications, req, resp, tabs, toast,
          applicant_email, mail, dash, resume_url,
          filters, inflight, employer, route

dbVars == <<user_roles, jobs, job_applications>>
vars == <<user_roles, jobs, job_applications, req, resp, tabs, toast,
          applicant_email, mail, dash, resume_url,
          filters, inflight, employer, route>>
\* the filter panel of ViewApplicants, the requests sent and not yet
\* answered, the EmployerDashboard page and the router
pageVars == <<filters, inflight, employer, route>>

\* a = b evaluates to true (never when either side is NULL)
SqlEq(a, b) == a # NULL /\ b # NULL /\ a = b

\* ------------------------------------------------------ policies: user_roles
UsersCanViewTheirOwnRole(uid, row) == SqlEq(uid, row.user_id)

UsersCanInsertTheirOwnRole(uid, row) == SqlEq(uid, row.user_id)

\* RLS is enabled and no UPDATE or DELETE policy exists: default deny
RoleUpdateUsingOpen(uid, row) == SqlEq(uid, row.user_id)
RoleUpdateUsing(uid, row) == FALSE

RoleDeleteUsing(uid, row) == FALSE

\* UNIQUE (user_id)
RoleUniqueViolation(row) ==
    \E i \in DOMAIN user_roles : user_roles[i].user_id = row.user_id

\* ------------------------------------------------------------ policies: jobs
\* a policy that also shows a job to its owner
AnyoneCanViewActiveOrOwnJobs(uid, row) ==
    row.is_active = "true" \/ SqlEq(row.user_id, uid)
AnyoneCanViewActiveJobs(uid, row) == row.is_active = "true"

\* a policy that admits every signed-in caller, whatever owner the row names
EmployersCanInsertAnyJobs(uid, row) == uid # NULL
EmployersCanInsertTheirOwnJobs(uid, row) == SqlEq(uid, row.user_id)

\* a policy that admits every caller for every row
EmployersCanUpdateAnyJobs(uid, row) == TRUE
EmployersCanUpdateTheirOwnJobs(uid, row) == SqlEq(uid, row.user_id)

is_job_owner(_user_id, _job_id) ==
    \E id \in DOMAIN jobs : id = _job_id /\ SqlEq(jobs[id].user_id, _user_id)

\* ------------------------------------------------ policies: job_applications
UsersCanViewTheirOwnApplications(uid, row) == SqlEq(uid, row.user_id)

EmployersCanViewApplicationsForTheirJobs(uid, row) == is_job_owner(uid, row.job_id)

\* permissive SELECT policies are OR-ed
AppsSelectUsingOwnOnly(uid, row) == UsersCanViewTheirOwnApplications(uid, row)
AppsSelectUsing(uid, row) ==
    \/ UsersCanViewTheirOwnApplications(uid, row)
    \/ EmployersCanViewApplicationsForTheirJobs(uid, row)

UsersCanCreateTheirOwnApplications(uid, row) == SqlEq(uid, row.user_id)

EmployersCanUpdateApplicationsForTheirJobs(uid, row) == is_job_owner(uid, row.job_id)

\* UNIQUE (job_id, user_id)
AppUniqueViolationOff(row) == FALSE
AppUniqueViolation(row) ==
    \E id \in DOMAIN job_applications :
        /\ job_applications[id].job_id = row.job_id
        /\ job_applications[id].user_id = row.user_id

\* job_id REFERENCES jobs(id)
AppForeignKeyViolation(row) == row.job_id \notin DOMAIN jobs

\* status TEXT DEFAULT 'pending': the column default applies only when the
\* request supplies no status
StatusColumn(supplied) == IF supplied = "default" THEN "pending" ELSE supplied

\* .update({ status }): the SET list of the status update
SetStatusGraph(row, status) ==
    IF row.status = "rejected" THEN row ELSE [row EXCEPT !.status = status]
SetStatusToggle(row, status) ==
    [row EXCEPT !.status = IF row.status = status THEN "pending" ELSE status]
SetStatus(row, status) == [row EXCEPT !.status = status]

\* ------------------------------------------------------------------- helpers
NoReq == [op |-> "none", caller |-> NULL, id |-> 0, val |-> "", old |-> ""]
NoResp == [code |-> "none", n |-> 0, rows |-> {}]

Request(op, caller, id, val, old) ==
    [op |-> op, caller |-> caller, id |-> id, val |-> val, old |-> old]
Response(code, n, rows) == [code |-> code, n |-> n, rows |-> rows]

\* a browser tab: the signed-in user, handleSubmit's position with the jobId
\* prop of the form, and JobSeekerDashboard's appliedJobs
Tab(user) == [user |-> user, pc |-> "idle", job |-> 0, appliedJobs |-> {}]

\* what the e-mail provider saw of the last handler invocation: the number
\* of resend.emails.send calls, the recipient and how the last call ended
NoMail == [attempts |-> 0, to |-> "", outcome |-> "none", write |-> "none"]

\* the ViewApplicants dialog of an employer: jobs and applicants are the
\* lists on display (applicants maps each listed application to the status
\* shown), selectedJob the job chosen, sendingEmail / sendingToBoss the
\* in-progress markers; pc, fn and arg follow a started
\* supabase.functions.invoke
View(user) ==
    [user |-> user, jobs |-> {}, selectedJob |-> 0, applicants |-> <<>>,
     loading |-> FALSE, sendingEmail |-> 0, sendingToBoss |-> FALSE,
     pc |-> "idle", fn |-> "", arg |-> ""]

\* the filter panel of ViewApplicants: the two text inputs and the select
\* (a text is the sequence of its characters, so the empty text is << >>)
NoFilters ==
    [minExperience |-> <<>>, maxExperience |-> <<>>, statusFilter |-> "all"]

\* the EmployerDashboard page of a user: the jobs listed (each with the
\* is_active shown) and stats.activeJobs; toggled counts the answers of
\* toggleJobActive handled so far, up to MaxInFlight
Employer(user) == [user |-> user, jobs |-> <<>>, activeJobs |-> 0, toggled |-> 0]

\* the router: the page shown, the signed-in user and the role useAuth holds
\* once its loading has finished, the page where the user last acted, the
\* number of navigate calls made by effects since, and whether handleSignOut
\* is at its await
Route(page, user, role) ==
    [page |-> page, user |-> user, role |-> role, loading |-> FALSE,
     start |-> page, redirects |-> 0, signingOut |-> FALSE]

\* ---------------------------------------------------------------------- Init
\* part_003 seeds jobs before the user_id column exists: a seeded job has no
\* owner and the default is_active = true.  Beside it there is a job that
\* user 1 posted through CreateJobForm, and user 2 has applied to it.  No user
\* has a role row yet, nobody is signed in.
SeededJobs ==
    <<[user_id |-> NULL, is_active |-> "true"],
      [user_id |-> 1, is_active |-> "true"]>>

FirstApplication == <<[job_id |-> 2, user_id |-> 2, status |-> "pending"]>>

Init ==
    /\ user_roles = <<>>
    /\ jobs = SeededJobs
    /\ job_applications = FirstApplication
    /\ req = NoReq
    /\ resp = NoResp
    /\ tabs = [t \in Tabs |-> Tab(NULL)]
    /\ toast = "none"
    /\ applicant_email = <<"a@x">>
    /\ resume_url = <<"resumes/2">>
    /\ filters = NoFilters
    /\ inflight = {}
    /\ employer = Employer(NULL)
    /\ route = Route("Index", NULL, "none")
    /\ mail = NoMail
    /\ dash = View(NULL)

\* =================================================== storage requests (REST)
\* Every request carries the caller's identity auth.uid(): a signed-in user
\* or NULL for the anonymous key.  Requests are single statements and
\* atomic.

\* the role row of user_id, as the rows a statement's WHERE user_id = .. names
RoleRows(user_id) == {i \in DOMAIN user_roles : user_roles[i].user_id = user_id}

\* INSERT INTO user_roles (user_id, role): WITH CHECK, then UNIQUE (user_id)
InsertRole(uid, user_id, role) ==
    LET row == [user_id |-> user_id, role |-> role] IN
    /\ req' = Request("insertRole", uid, user_id, role, "")
    /\ IF ~UsersCanInsertTheirOwnRole(uid, row)
       THEN resp' = Response("42501", 0, {}) /\ UNCHANGED user_roles
       ELSE IF RoleUniqueViolation(row)
       THEN resp' = Response("23505", 0, {}) /\ UNCHANGED user_roles
       ELSE /\ Len(user_roles) < MaxRoleRows
            /\ resp' = Response("ok", 1, {})
            /\ user_roles' = Append(user_roles, row)
    /\ UNCHANGED <<jobs, job_applications>>

\* UPDATE user_roles SET role = .. WHERE user_id = ..: rows no policy admits
\* are skipped without an error
UpdateRole(uid, user_id, role) ==
    LET hit == {i \in RoleRows(user_id) :
                  /\ UsersCanViewTheirOwnRole(uid, user_roles[i])
                  /\ RoleUpdateUsing(uid, user_roles[i])}
    IN
    /\ req' = Request("updateRole", uid, user_id, role, "")
    /\ resp' = Response("ok", Cardinality(hit), {})
    /\ user_roles' = [i \in DOMAIN user_roles |->
                         IF i \in hit THEN [user_roles[i] EXCEPT !.role = role]
                         ELSE user_roles[i]]
    /\ UNCHANGED <<jobs, job_applications>>

\* DELETE FROM user_roles WHERE user_id = ..
DeleteRole(uid, user_id) ==
    LET hit == {i \in RoleRows(user_id) :
                  /\ UsersCanViewTheirOwnRole(uid, user_roles[i])
                  /\ RoleDeleteUsing(uid, user_roles[i])}
    IN
    /\ req' = Request("deleteRole", uid, user_id, "", "")
    /\ resp' = Response("ok", Cardinality(hit), {})
    /\ user_roles' = SelectSeq(user_roles, LAMBDA r : r.user_id # user_id \/ hit = {})
    /\ UNCHANGED <<jobs, job_applications>>

\* SELECT role FROM user_roles WHERE user_id = ..
FetchRole(uid, user_id) ==
    /\ req' = Request("fetchRole", uid, user_id, "", "")
    /\ resp' = Response("ok", 0,
                        {i \in RoleRows(user_id) :
                            UsersCanViewTheirOwnRole(uid, user_roles[i])})
    /\ UNCHANGED <<user_roles, jobs, job_applications>>

\* INSERT INTO jobs (.., user_id, is_active): the request may name any owner
\* and any is_active; an omitted owner is NULL
InsertJob(uid, user_id, is_active) ==
    LET row == [user_id |-> user_id, is_active |-> is_active] IN
    /\ req' = Request("insertJob", uid, Len(jobs) + 1, is_active, "")
    /\ IF ~EmployersCanInsertTheirOwnJobs(uid, row)
       THEN resp' = Response("42501", 0, {}) /\ UNCHANGED jobs
       ELSE /\ Len(jobs) < MaxJobs
            /\ resp' = Response("ok", 1, {})
            /\ jobs' = Append(jobs, row)
    /\ UNCHANGED <<user_roles, job_applications>>

\* UPDATE jobs SET is_active = .. WHERE id = ..: the statement reads the id
\* column, so the SELECT policy applies to the existing row (with the UPDATE
\* policy's USING) and to the new row (with the UPDATE policy's USING as its
\* WITH CHECK).  A row the USING side rejects is skipped; a new row the check
\* side rejects aborts the statement with 42501.
UpdateJobActive(uid, id, is_active) ==
    LET exists == id \in DOMAIN jobs
        old == jobs[id]
        new == [old EXCEPT !.is_active = is_active]
        hit == /\ exists
               /\ AnyoneCanViewActiveJobs(uid, old)
               /\ EmployersCanUpdateTheirOwnJobs(uid, old)
        pass == /\ EmployersCanUpdateTheirOwnJobs(uid, new)
                /\ AnyoneCanViewActiveJobs(uid, new)
    IN
    /\ req' = Request("updateJob", uid, id, is_active,
                      IF exists THEN old.is_active ELSE "")
    /\ IF ~hit
       THEN resp' = Response("ok", 0, {}) /\ UNCHANGED jobs
       ELSE IF ~pass
       THEN resp' = Response("42501", 0, {}) /\ UNCHANGED jobs
       ELSE /\ resp' = Response("ok", 1, {})
            /\ jobs' = [jobs EXCEPT ![id] = new]
    /\ UNCHANGED <<user_roles, job_applications>>

\* the rows of jobs a SELECT by uid returns
JobsVisibleTo(uid) == {id \in DOMAIN jobs : AnyoneCanViewActiveJobs(uid, jobs[id])}

\* EmployerDashboard.fetchData: .from('jobs').select(..).eq('user_id', user.id)
FetchEmployerJobs(uid) ==
    /\ uid # NULL
    /\ req' = Request("fetchEmployerJobs", uid, 0, "", "")
    /\ resp' = Response("ok", 0,
                        {id \in JobsVisibleTo(uid) : SqlEq(jobs[id].user_id, uid)})
    /\ UNCHANGED <<user_roles, jobs, job_applications>>

\* JobSeekerDashboard.fetchJobs: .from('jobs').select('*').eq('is_active', true)
FetchJobs(uid) ==
    /\ req' = Request("fetchJobs", uid, 0, "", "")
    /\ resp' = Response("ok", 0,
                        {id \in JobsVisibleTo(uid) : jobs[id].is_active = "true"})
    /\ UNCHANGED <<user_roles, jobs, job_applications>>

\* INSERT INTO job_applications (job_id, user_id [, status]): WITH CHECK, then
\* UNIQUE (job_id, user_id), then the foreign key on job_id.  supplied is the
\* status of the request body, "default" when the body has none (both forms).
InsertApplication(uid, job_id, user_id, supplied) ==
    LET row == [job_id |-> job_id, user_id |-> user_id,
                status |-> StatusColumn(supplied)]
    IN
    /\ req' = Request("insertApplication", uid, job_id, supplied, "")
    /\ IF ~UsersCanCreateTheirOwnApplications(uid, row)
       THEN resp' = Response("42501", 0, {}) /\ UNCHANGED job_applications
       ELSE IF AppUniqueViolation(row)
       THEN resp' = Response("23505", 0, {}) /\ UNCHANGED job_applications
       ELSE IF AppForeignKeyViolation(row)
       THEN resp' = Response("23503", 0, {}) /\ UNCHANGED job_applications
       ELSE /\ resp' = Response("ok", 1, {})
            /\ job_applications' = Append(job_applications, row)
    /\ UNCHANGED <<user_roles, jobs>>

\* the rows an UPDATE .. WHERE id = .. by uid reaches: the SELECT policies
\* and the UPDATE policy's USING admit the existing row
AppUpdateHits(uid, id) ==
    /\ id \in DOMAIN job_applications
    /\ AppsSelectUsing(uid, job_applications[id])
    /\ EmployersCanUpdateApplicationsForTheirJobs(uid, job_applications[id])

\* the new row passes the UPDATE policy's WITH CHECK and the SELECT policies
AppUpdatePasses(uid, new) ==
    /\ EmployersCanUpdateApplicationsForTheirJobs(uid, new)
    /\ AppsSelectUsing(uid, new)

\* an UPDATE without its WHERE clause
RowsAfterUpdateOfAll(id, status) ==
    [a \in DOMAIN job_applications |-> SetStatus(job_applications[a], status)]
\* the table after .update({ status }).eq('id', id) reached the row
RowsAfterUpdate(id, status) ==
    [job_applications EXCEPT ![id] = SetStatus(job_applications[id], status)]

\* updateApplicationStatus's request:
\* .from('job_applications').update({ status }).eq('id', applicationId)
\* A row the policies do not admit is skipped: zero rows, no error.
UpdateApplicationStatus(uid, id, status) ==
    LET exists == id \in DOMAIN job_applications
        new == SetStatus(job_applications[id], status)
    IN
    /\ req' = Request("updateStatus", uid, id, status,
                      IF exists THEN job_applications[id].status ELSE "")
    /\ IF ~AppUpdateHits(uid, id)
       THEN resp' = Response("ok", 0, {}) /\ UNCHANGED job_applications
       ELSE IF ~AppUpdatePasses(uid, new)
       THEN resp' = Response("42501", 0, {}) /\ UNCHANGED job_applications
       ELSE /\ resp' = Response("ok", 1, {})
            /\ job_applications' = RowsAfterUpdate(id, status)
    /\ UNCHANGED <<user_roles, jobs>>

\* the rows of job_applications a SELECT by uid returns
AppsVisibleTo(uid) ==
    {id \in DOMAIN job_applications : AppsSelectUsing(uid, job_applications[id])}

\* fetchApplicants / fetchAppliedJobs: .from('job_applications').select(..)
FetchApplications(uid) ==
    /\ req' = Request("fetchApplications", uid, 0, "", "")
    /\ resp' = Response("ok", 0, AppsVisibleTo(uid))
    /\ UNCHANGED <<user_roles, jobs, job_applications>>

\* ====================================== edge function send-applicant-email
\* handler: the body names any applicationId and status; the caller's
\* identity is never read.  send is what resend.emails.send does: it resolves
\* ("sent", or "refused" when the provider answers with an error object) or
\* it throws.  After a resolved send the handler updates the row through a
\* client built with the service-role key, which no policy restricts; write
\* is what that request returns: no error ("ok") or an updateError
\* ("error"), which the handler throws.
WriteOutcomes == {"ok", "error"}

\* a handler that does not look at updateError
HandlerAnswerIgnoringWrite(send, write) ==
    IF send = "throws" THEN "500" ELSE "200"
\* the status of the handler's response: 200 at the end of the try block,
\* 500 from the catch block
HandlerAnswer(send, write) ==
    IF send = "throws" \/ write = "error" THEN "500" ELSE "200"

SendApplicantEmail(uid, applicationId, status, send, write) ==
    LET exists == applicationId \in DOMAIN job_applications IN
    /\ req' = Request("sendApplicantEmail", uid, applicationId, status, "")
    /\ IF send = "throws" \/ write = "error"
       THEN /\ resp' = Response(HandlerAnswer(send, write), 0, {})
            /\ UNCHANGED job_applications
       ELSE /\ resp' = Response(HandlerAnswer(send, write), IF exists THEN 1 ELSE 0, {})
            /\ job_applications' =
                  IF exists
                  THEN RowsAfterUpdate(applicationId, status)
                  ELSE job_applications
    /\ UNCHANGED <<user_roles, jobs>>

\* ------------------------------------------------------------ specifications
\* the insert would add a row only while the table holds fewer than cap rows
AppsRoom(cap, uid, job_id, user_id) ==
    LET row == [job_id |-> job_id, user_id |-> user_id, status |-> "pending"] IN
    (/\ UsersCanCreateTheirOwnApplications(uid, row)
     /\ ~AppUniqueViolation(row)
     /\ ~AppForeignKeyViolation(row)) => Len(job_applications) < cap

clientVars == <<tabs, toast>>
\* the applicant_email column, the e-mail provider and the employer's view
mailVars == <<applicant_email, mail, dash>>

\* the role registry
NextRoles ==
    \/ \E uid \in Callers, u \in Users, r \in user_role :
          InsertRole(uid, u, r) /\ UNCHANGED <<clientVars, mailVars, resume_url, pageVars>>
    \/ \E uid \in Callers, u \in Users, r \in user_role :
          UpdateRole(uid, u, r) /\ UNCHANGED <<clientVars, mailVars, resume_url, pageVars>>
    \/ \E uid \in Callers, u \in Users :
          DeleteRole(uid, u) /\ UNCHANGED <<clientVars, mailVars, resume_url, pageVars>>
    \/ \E uid \in Callers, u \in Users :
          FetchRole(uid, u) /\ UNCHANGED <<clientVars, mailVars, resume_url, pageVars>>

SpecRoles == Init /\ [][NextRoles]_vars

\* the jobs table
NextJobs ==
    \/ \E uid \in Callers, u \in Callers, b \in Bool3 :
          InsertJob(uid, u, b) /\ UNCHANGED <<clientVars, mailVars, resume_url, pageVars>>
    \/ \E uid \in Callers, j \in JobIds, b \in Bool3 :
          UpdateJobActive(uid, j, b) /\ UNCHANGED <<clientVars, mailVars, resume_url, pageVars>>
    \/ \E uid \in Callers : FetchEmployerJobs(uid) /\ UNCHANGED <<clientVars, mailVars, resume_url, pageVars>>
    \/ \E uid \in Callers : FetchJobs(uid) /\ UNCHANGED <<clientVars, mailVars, resume_url, pageVars>>

SpecJobs == Init /\ [][NextJobs]_vars

\* the application ledger, written and read by every caller
Next ==
    \/ \E uid \in Users, j \in JobIds, s \in {"default", "rejected"} :
          /\ AppsRoom(MaxApps, uid, j, uid)
          /\ InsertApplication(uid, j, uid, s)
          /\ UNCHANGED <<clientVars, mailVars, resume_url, pageVars>>
    \/ \E uid \in Callers, a \in AppIds, s \in Status :
          UpdateApplicationStatus(uid, a, s) /\ UNCHANGED <<clientVars, mailVars, resume_url, pageVars>>
    \/ \E uid \in Callers : FetchApplications(uid) /\ UNCHANGED <<clientVars, mailVars, resume_url, pageVars>>
    \/ \E uid \in Callers, a \in AppIds, s \in Status :
          SendApplicantEmail(uid, a, s, "sent", "ok") /\ UNCHANGED <<clientVars, mailVars, resume_url, pageVars>>

Spec == Init /\ [][Next]_vars

\* signing up and creating: each user sets a role, posts jobs and applies, as
\* the sign-up page, CreateJobForm and the application forms ask for them
NextCreate ==
    \/ \E u \in Users, r \in user_role :
          InsertRole(u, u, r) /\ UNCHANGED <<clientVars, mailVars, resume_url, pageVars>>
    \/ \E u \in Users : InsertJob(u, u, "true") /\ UNCHANGED <<clientVars, mailVars, resume_url, pageVars>>
    \/ \E u \in Users, j \in JobIds :
          /\ AppsRoom(MaxApps, u, j, u)
          /\ InsertApplication(u, j, u, "default")
          /\ UNCHANGED <<clientVars, mailVars, resume_url, pageVars>>

SpecCreate == Init /\ [][NextCreate]_vars

\* ========================================================= client: applying
\* the text of the toast a handler shows for the answer of its insert
ApplyToast(code) ==
    IF code = "ok" THEN "Application Submitted!"
    ELSE IF code = "23505" THEN "Already Applied"
    ELSE "Error"

\* JobSeekerDashboard.fetchAppliedJobs:
\* .from('job_applications').select('job_id').eq('user_id', user.id)
fetchAppliedJobs(t) ==
    LET user == tabs[t].user IN
    /\ user # NULL
    /\ FetchApplications(user)
    /\ tabs' = [tabs EXCEPT ![t].appliedJobs =
                   {job_applications[a].job_id :
                       a \in {x \in resp'.rows : job_applications[x].user_id = user}}]
    /\ UNCHANGED toast

\* the resume_url stored for an insert whose body has the given keys:
\* resume_url TEXT is nullable and has no default, so a body without the
\* key stores NULL, read as the empty string
ResumeOf(keys) == IF "resume_url" \in keys THEN "resumes/file" ELSE ""

\* JobSeekerDashboard.handleApply, from the Apply Now button of a listed job
\* (fetchJobs lists the active jobs; the button is disabled once the tab's
\* appliedJobs holds the job)
handleApply(t, jobId) ==
    LET user == tabs[t].user IN
    /\ user # NULL
    /\ jobId \in JobsVisibleTo(user)
    /\ jobId \notin tabs[t].appliedJobs
    /\ AppsRoom(MaxFormApps, user, jobId, user)
    /\ InsertApplication(user, jobId, user, "default")
    /\ toast' = ApplyToast(resp'.code)
    /\ tabs' = IF resp'.code = "ok"
               THEN [tabs EXCEPT ![t].appliedJobs = @ \cup {jobId}]
               ELSE tabs
    /\ resume_url' = IF resp'.code = "ok"
                     THEN Append(resume_url, ResumeOf({"job_id", "user_id"}))
                     ELSE resume_url

\* JobApplicationForm.handleSubmit up to the upload of the resume: the form
\* is open on a listed job, a file is chosen and no submit is in progress
handleSubmitUpload(t, jobId, uploaded) ==
    LET user == tabs[t].user IN
    /\ user # NULL
    /\ jobId \in JobsVisibleTo(user)
    /\ tabs[t].pc = "idle"
    /\ req' = Request("upload", user, jobId, "", "")
    /\ IF uploaded
       THEN /\ resp' = Response("ok", 0, {})
            /\ tabs' = [tabs EXCEPT ![t].pc = "inserting", ![t].job = jobId]
            /\ UNCHANGED toast
       ELSE /\ resp' = Response("error", 0, {})
            /\ toast' = "Error"
            /\ UNCHANGED tabs
    /\ UNCHANGED dbVars

\* JobApplicationForm.handleSubmit from the insert on
handleSubmitInsert(t) ==
    LET user == tabs[t].user IN
    /\ tabs[t].pc = "inserting"
    /\ AppsRoom(MaxFormApps, user, tabs[t].job, user)
    /\ InsertApplication(user, tabs[t].job, user, "default")
    /\ toast' = ApplyToast(resp'.code)
    /\ tabs' = [tabs EXCEPT ![t].pc = "idle", ![t].job = 0]
    /\ resume_url' = IF resp'.code = "ok"
                     THEN Append(resume_url,
                                 ResumeOf({"job_id", "user_id", "resume_url"}))
                     ELSE resume_url

\* two tabs, each signed in as some user
InitForms ==
    /\ user_roles = <<>>
    /\ jobs = SeededJobs
    /\ job_applications = <<>>
    /\ req = NoReq
    /\ resp = NoResp
    /\ tabs \in [Tabs -> {Tab(u) : u \in Users}]
    /\ toast = "none"
    /\ applicant_email = <<>>
    /\ resume_url = <<>>
    /\ filters = NoFilters
    /\ inflight = {}
    /\ employer = Employer(NULL)
    /\ route = Route("Index", NULL, "none")
    /\ mail = NoMail
    /\ dash = View(NULL)

NextForms ==
    \/ \E t \in Tabs : fetchAppliedJobs(t) /\ UNCHANGED <<mailVars, resume_url, pageVars>>
    \/ \E t \in Tabs, j \in JobIds : handleApply(t, j) /\ UNCHANGED <<mailVars, pageVars>>
    \/ \E t \in Tabs, j \in JobIds, uploaded \in BOOLEAN :
          handleSubmitUpload(t, j, uploaded) /\ UNCHANGED <<mailVars, resume_url, pageVars>>
    \/ \E t \in Tabs : handleSubmitInsert(t) /\ UNCHANGED <<mailVars, pageVars>>

SpecForms == InitForms /\ [][NextForms]_vars

\* ============================================== notifications and the view
\* the applicant_email of an application; a row without one (handleApply
\* inserts only job_id and user_id) has NULL, read as the empty string
EmailOf(id) ==
    IF id \in DOMAIN applicant_email THEN applicant_email[id] ELSE ""

\* how a call of resend.emails.send can end: the provider accepts the
\* message ("sent"), it answers with an error, which the SDK returns as
\* { data: null, error } ("refused"), or the call throws ("throws").  An
\* empty recipient is never accepted.
SendOutcomes(to) ==
    IF to = "" THEN {"refused", "throws"} ELSE {"sent", "refused", "throws"}

\* a handler that calls send again after a failed call
SendAttemptsRetry(outcome) == IF outcome = "sent" THEN 1 ELSE 2
\* the number of resend.emails.send calls of one invocation: a single await
SendAttempts(outcome) == 1

\* send-applicant-email invoked with a body: one send to applicantEmail,
\* then the status update of SendApplicantEmail
ApplicantEmailHandler(uid, applicationId, to, status, send, write) ==
    /\ SendApplicantEmail(uid, applicationId, status, send, write)
    /\ mail' = [attempts |-> SendAttempts(send), to |-> to, outcome |-> send,
                write |-> IF send = "throws" THEN "none" ELSE write]

\* a check that looks at the recipient and the title only
MissingRequiredFieldsNoList(bossEmail, jobTitle, n) ==
    bossEmail = "" \/ ~jobTitle
\* send-to-boss: !bossEmail || !jobTitle || !shortlistedApplicants.length
MissingRequiredFields(bossEmail, jobTitle, n) ==
    bossEmail = "" \/ ~jobTitle \/ n = 0

\* send-to-boss invoked with a body naming n applicants: validation, then
\* one send to bossEmail; no table is written
SendToBoss(uid, bossEmail, jobTitle, n, send) ==
    /\ req' = Request("sendToBoss", uid, n, bossEmail, "")
    /\ IF MissingRequiredFields(bossEmail, jobTitle, n)
       THEN /\ resp' = Response("500", 0, {})
            /\ mail' = [attempts |-> 0, to |-> bossEmail, outcome |-> "none",
                        write |-> "none"]
       ELSE /\ resp' = Response(IF send = "throws" THEN "500" ELSE "200", 0, {})
            /\ mail' = [attempts |-> SendAttempts(send), to |-> bossEmail,
                        outcome |-> send, write |-> "none"]
    /\ UNCHANGED dbVars

\* ViewApplicants.fetchEmployerJobs; fails is a failed read (the request
\* returns an error), which is only logged
fetchEmployerJobs(fails) ==
    /\ dash.user # NULL
    /\ dash.pc = "idle"
    /\ IF fails
       THEN /\ req' = Request("fetchEmployerJobs", dash.user, 0, "", "")
            /\ resp' = Response("error", 0, {})
            /\ UNCHANGED <<dbVars, dash>>
       ELSE /\ FetchEmployerJobs(dash.user)
            /\ dash' = [dash EXCEPT !.jobs = resp'.rows]
    /\ UNCHANGED <<toast, tabs, applicant_email, resume_url, mail>>

\* ViewApplicants.handleJobSelect with its fetchApplicants: the selection
\* changes first; a failed read shows the Error toast and leaves the list
handleJobSelect(jobId, fails) ==
    /\ jobId \in dash.jobs
    /\ dash.pc = "idle"
    /\ IF fails
       THEN /\ req' = Request("fetchApplications", dash.user, 0, "", "")
            /\ resp' = Response("error", 0, {})
            /\ UNCHANGED dbVars
            /\ toast' = "Error"
            /\ dash' = [dash EXCEPT !.selectedJob = jobId]
       ELSE /\ FetchApplications(dash.user)
            /\ toast' = toast
            /\ dash' = [dash EXCEPT
                  !.selectedJob = jobId,
                  !.applicants =
                     [id \in {x \in resp'.rows : job_applications[x].job_id = jobId}
                         |-> job_applications[id].status]]
    /\ UNCHANGED <<tabs, applicant_email, resume_url, mail>>

\* ViewApplicants.updateApplicationStatus: the request and what follows its
\* answer; fails is a request that returns an error without reaching the
\* table.  An error shows the Error toast; otherwise the row on display is
\* given the new status.
updateApplicationStatus(id, status, fails) ==
    /\ id \in DOMAIN dash.applicants
    /\ dash.pc = "idle"
    /\ IF fails
       THEN /\ req' = Request("updateStatus", dash.user, id, status,
                              job_applications[id].status)
            /\ resp' = Response("error", 0, {})
            /\ UNCHANGED dbVars
       ELSE UpdateApplicationStatus(dash.user, id, status)
    /\ IF resp'.code = "ok"
       THEN /\ toast' = "Status Updated"
            /\ dash' = [dash EXCEPT !.applicants = [@ EXCEPT ![id] = status]]
       ELSE /\ toast' = "Error"
            /\ UNCHANGED dash
    /\ UNCHANGED <<tabs, applicant_email, resume_url, mail>>

\* sendEmailAndUpdateStatus up to the invoke: the two guards, then the
\* in-progress marker is set and the function is called
sendEmailAndUpdateStatus(id, status) ==
    /\ id \in DOMAIN dash.applicants
    /\ dash.pc = "idle"
    /\ IF EmailOf(id) = "" \/ dash.selectedJob = 0
       THEN toast' = "Error" /\ UNCHANGED dash
       ELSE /\ toast' = toast
            /\ dash' = [dash EXCEPT !.sendingEmail = id, !.pc = "invoking",
                                    !.fn = "send-applicant-email", !.arg = status]
    /\ UNCHANGED <<dbVars, req, resp, tabs, applicant_email, resume_url, mail>>

\* sendEmailAndUpdateStatus from the answer of the invoke on: an answer
\* other than 2xx is thrown and shown as Email Failed, a 2xx answer updates
\* the row on display; the marker is cleared in either case
sendEmailSettle(send, write) ==
    /\ dash.pc = "invoking"
    /\ dash.fn = "send-applicant-email"
    /\ ApplicantEmailHandler(dash.user, dash.sendingEmail,
                             EmailOf(dash.sendingEmail), dash.arg, send, write)
    /\ toast' = IF resp'.code = "200" THEN "Email Sent!" ELSE "Email Failed"
    /\ dash' = [dash EXCEPT
          !.applicants = IF resp'.code = "200"
                         THEN [@ EXCEPT ![dash.sendingEmail] = dash.arg]
                         ELSE @,
          !.sendingEmail = 0, !.pc = "idle", !.fn = "", !.arg = ""]
    /\ UNCHANGED <<tabs, applicant_email, resume_url>>

\* handleSendToBoss up to the invoke: the three guards (recipient, job,
\* applicants to send), then the marker is set and the function is called
handleSendToBoss(bossEmail) ==
    /\ dash.user # NULL
    /\ dash.pc = "idle"
    /\ IF bossEmail = "" \/ dash.selectedJob = 0 \/ DOMAIN dash.applicants = {}
       THEN toast' = "Error" /\ UNCHANGED dash
       ELSE /\ toast' = toast
            /\ dash' = [dash EXCEPT !.sendingToBoss = TRUE, !.pc = "invoking",
                                    !.fn = "send-to-boss", !.arg = bossEmail]
    /\ UNCHANGED <<dbVars, req, resp, tabs, applicant_email, resume_url, mail>>

\* the applicants handleSendToBoss sends: the shortlisted ones on display,
\* or all on display when none is shortlisted
ApplicantsToSend ==
    LET shortlisted == {id \in DOMAIN dash.applicants :
                           dash.applicants[id] = "shortlisted"}
    IN IF shortlisted # {} THEN shortlisted ELSE DOMAIN dash.applicants

\* handleSendToBoss from the answer of the invoke on
sendToBossSettle(send) ==
    /\ dash.pc = "invoking"
    /\ dash.fn = "send-to-boss"
    /\ SendToBoss(dash.user, dash.arg, TRUE, Cardinality(ApplicantsToSend), send)
    /\ toast' = IF resp'.code = "200" THEN "Email Sent!" ELSE "Failed to Send"
    /\ dash' = [dash EXCEPT !.sendingToBoss = FALSE, !.pc = "idle",
                            !.fn = "", !.arg = ""]
    /\ UNCHANGED <<tabs, applicant_email, resume_url>>

\* the answer of a started invoke never arrives: supabase.functions.invoke
\* is awaited without a timeout or an abort signal, so the handler stays
\* at its await
invokeStalls ==
    /\ dash.pc = "invoking"
    /\ dash' = [dash EXCEPT !.pc = "stalled"]
    /\ UNCHANGED <<dbVars, req, resp, tabs, toast, applicant_email, resume_url, mail>>

\* user 1 is signed in as the employer of two jobs; user 2 applied to one
\* through JobApplicationForm (with an e-mail address) and to the other
\* through the Apply Now button (without)
InitMail ==
    /\ user_roles = <<>>
    /\ jobs = SeededJobs \o <<[user_id |-> 1, is_active |-> "true"]>>
    /\ job_applications =
          FirstApplication \o <<[job_id |-> 3, user_id |-> 2, status |-> "pending"]>>
    /\ req = NoReq
    /\ resp = NoResp
    /\ tabs = [t \in Tabs |-> Tab(NULL)]
    /\ toast = "none"
    /\ applicant_email = <<"a@x", "">>
    /\ resume_url = <<"resumes/2", "">>
    /\ filters = NoFilters
    /\ inflight = {}
    /\ employer = Employer(NULL)
    /\ route = Route("Index", NULL, "none")
    /\ mail = NoMail
    /\ dash = View(1)

\* the employer's view, and the two functions called with the public key
\* and any body
NextMail ==
    \/ \E fails \in BOOLEAN : fetchEmployerJobs(fails) /\ UNCHANGED pageVars
    \/ \E j \in JobIds, fails \in BOOLEAN : handleJobSelect(j, fails) /\ UNCHANGED pageVars
    \/ \E a \in AppIds, st \in {"shortlisted", "rejected"} :
          sendEmailAndUpdateStatus(a, st) /\ UNCHANGED pageVars
    \/ \E send \in {"sent", "refused", "throws"}, write \in WriteOutcomes :
          sendEmailSettle(send, write) /\ UNCHANGED pageVars
    \/ \E b \in {"", "boss@x"} : handleSendToBoss(b) /\ UNCHANGED pageVars
    \/ \E send \in {"sent", "refused", "throws"} : sendToBossSettle(send) /\ UNCHANGED pageVars
    \/ \E a \in AppIds, to \in {"", "a@x"}, st \in {"shortlisted", "rejected"} :
          \E send \in SendOutcomes(to) :
             /\ ApplicantEmailHandler(NULL, a, to, st, send, "ok")
             /\ UNCHANGED <<tabs, toast, applicant_email, resume_url, dash, pageVars>>
    \/ \E b \in {"", "boss@x"}, n \in 0..1 :
          \E send \in SendOutcomes(b) :
             /\ SendToBoss(NULL, b, TRUE, n, send)
             /\ UNCHANGED <<tabs, toast, applicant_email, resume_url, dash, pageVars>>

SpecMail == InitMail /\ [][NextMail]_vars

\* the employer's view alone, where the answer of an invoke may never come.
\* An answer that has arrived is handled: the continuation after the await
\* runs (weak fairness of the two settling steps).
NextView ==
    \/ \E fails \in BOOLEAN : fetchEmployerJobs(fails) /\ UNCHANGED pageVars
    \/ \E j \in JobIds, fails \in BOOLEAN : handleJobSelect(j, fails) /\ UNCHANGED pageVars
    \/ \E a \in AppIds, fails \in BOOLEAN :
          updateApplicationStatus(a, "reviewed", fails) /\ UNCHANGED pageVars
    \/ \E a \in AppIds, st \in {"shortlisted", "rejected"} :
          sendEmailAndUpdateStatus(a, st) /\ UNCHANGED pageVars
    \/ \E send \in {"sent", "refused", "throws"}, write \in WriteOutcomes :
          sendEmailSettle(send, write) /\ UNCHANGED pageVars
    \/ \E b \in {"", "boss@x"} : handleSendToBoss(b) /\ UNCHANGED pageVars
    \/ \E send \in {"sent", "refused", "throws"} : sendToBossSettle(send) /\ UNCHANGED pageVars
    \/ invokeStalls /\ UNCHANGED pageVars

SpecView ==
    /\ InitMail
    /\ [][NextView]_vars
    /\ WF_vars(\E send \in {"sent", "refused", "throws"}, write \in WriteOutcomes :
                  sendEmailSettle(send, write) /\ UNCHANGED pageVars)
    /\ WF_vars(\E send \in {"sent", "refused", "throws"} :
                  sendToBossSettle(send) /\ UNCHANGED pageVars)

\* ======================================= the view with requests in flight
\* Every handler of the view awaits its request; until the answer comes the
\* page stays usable, so further handlers can start.  A request in flight is
\* a record: n tells requests apart, kind is "fetch", "update" or "email",
\* id the job or application, arg the status, answer "none" until the server
\* has served it and then the code of the answer, rows what a fetch read.
InFlight(n, kind, id, arg) ==
    [n |-> n, kind |-> kind, id |-> id, arg |-> arg, answer |-> "none", rows |-> <<>>]

\* a number no request in flight carries
FreeNumber == CHOOSE n \in 1..MaxInFlight : \A r \in inflight : r.n # n

\* disabled={sendingEmail === applicant.id} of the buttons of a row
ButtonsDisabled(id) == dash.sendingEmail = id

\* handleJobSelect: the selection and the filters are set, fetchApplicants
\* sets loading and sends its request
handleJobSelectSent(jobId) ==
    /\ jobId \in dash.jobs
    /\ Cardinality(inflight) < MaxInFlight
    /\ dash' = [dash EXCEPT !.selectedJob = jobId, !.loading = TRUE]
    /\ filters' = NoFilters
    /\ inflight' = inflight \cup {InFlight(FreeNumber, "fetch", jobId, "")}
    /\ UNCHANGED <<dbVars, req, resp, clientVars, applicant_email, mail,
                   resume_url, employer, route>>

\* a click on Mark Reviewed of a row on display: the request is sent
updateApplicationStatusSent(id, status) ==
    /\ id \in DOMAIN dash.applicants
    /\ ~dash.loading
    /\ ~ButtonsDisabled(id)
    /\ Cardinality(inflight) < MaxInFlight
    /\ inflight' = inflight \cup {InFlight(FreeNumber, "update", id, status)}
    /\ UNCHANGED <<dbVars, req, resp, clientVars, mailVars, resume_url,
                   filters, employer, route>>

\* a click on an e-mail button of a row on display (disabled without an
\* applicant e-mail): the marker is set, the function is invoked
sendEmailAndUpdateStatusSent(id, status) ==
    /\ id \in DOMAIN dash.applicants
    /\ ~dash.loading
    /\ ~ButtonsDisabled(id)
    /\ EmailOf(id) # ""
    /\ dash.selectedJob # 0
    /\ Cardinality(inflight) < MaxInFlight
    /\ dash' = [dash EXCEPT !.sendingEmail = id]
    /\ inflight' = inflight \cup {InFlight(FreeNumber, "email", id, status)}
    /\ UNCHANGED <<dbVars, req, resp, clientVars, applicant_email, mail,
                   resume_url, filters, employer, route>>

\* the server serves a request in flight: the read, the UPDATE or the
\* handler (whose send and write succeed) runs, and the answer is on its way
requestServed(r) ==
    /\ r \in inflight
    /\ r.answer = "none"
    /\ CASE r.kind = "fetch" -> FetchApplications(dash.user) /\ UNCHANGED mail
         [] r.kind = "update" ->
               UpdateApplicationStatus(dash.user, r.id, r.arg) /\ UNCHANGED mail
         [] r.kind = "email" ->
               ApplicantEmailHandler(dash.user, r.id, EmailOf(r.id), r.arg, "sent", "ok")
    /\ inflight' = (inflight \ {r}) \cup
          {[r EXCEPT !.answer = resp'.code,
                     !.rows = IF r.kind = "fetch"
                              THEN [id \in {x \in resp'.rows :
                                              job_applications[x].job_id = r.id}
                                       |-> job_applications[id].status]
                              ELSE <<>>]}
    /\ UNCHANGED <<clientVars, applicant_email, dash, resume_url, filters,
                   employer, route>>

\* app.id === id ? { ...app, status } : app over the rows on display
MarkApplicant(applicants, id, status) ==
    [x \in DOMAIN applicants |-> IF x = id THEN status ELSE applicants[x]]

\* the answer of a served request arrives and the handler that awaited it
\* goes on: setApplicants + setLoading(false) of fetchApplicants, the else
\* branch of updateApplicationStatus, the rest of the try block and the
\* finally block of sendEmailAndUpdateStatus
answerHandled(r) ==
    /\ r \in inflight
    /\ r.answer # "none"
    /\ inflight' = inflight \ {r}
    /\ CASE r.kind = "fetch" ->
               /\ dash' = [dash EXCEPT
                     !.applicants = IF r.answer = "ok" THEN r.rows ELSE @,
                     !.loading = FALSE]
               /\ toast' = IF r.answer = "ok" THEN toast ELSE "Error"
         [] r.kind = "update" ->
               /\ dash' = [dash EXCEPT
                     !.applicants = IF r.answer = "ok"
                                    THEN MarkApplicant(@, r.id, r.arg) ELSE @]
               /\ toast' = IF r.answer = "ok" THEN "Status Updated" ELSE "Error"
         [] r.kind = "email" ->
               /\ dash' = [dash EXCEPT
                     !.applicants = IF r.answer = "200"
                                    THEN MarkApplicant(@, r.id, r.arg) ELSE @,
                     !.sendingEmail = 0]
               /\ toast' = IF r.answer = "200" THEN "Email Sent!" ELSE "Email Failed"
    /\ UNCHANGED <<dbVars, req, resp, tabs, applicant_email, mail, resume_url,
                   filters, employer, route>>

\* user 1 is signed in as the employer of jobs 2 and 3, which the view has
\* fetched; two applications to job 2, both with an e-mail address
InitAsync ==
    /\ user_roles = <<>>
    /\ jobs = SeededJobs \o <<[user_id |-> 1, is_active |-> "true"]>>
    /\ job_applications =
          FirstApplication \o <<[job_id |-> 2, user_id |-> 1, status |-> "pending"]>>
    /\ req = NoReq
    /\ resp = NoResp
    /\ tabs = [t \in Tabs |-> Tab(NULL)]
    /\ toast = "none"
    /\ applicant_email = <<"a@x", "b@x">>
    /\ resume_url = <<"resumes/2", "resumes/1">>
    /\ mail = NoMail
    /\ dash = [View(1) EXCEPT !.jobs = {2, 3}]
    /\ filters = NoFilters
    /\ inflight = {}
    /\ employer = Employer(NULL)
    /\ route = Route("Index", NULL, "none")

NextAsync ==
    \/ \E j \in JobIds : handleJobSelectSent(j)
    \/ \E a \in DOMAIN job_applications : updateApplicationStatusSent(a, "reviewed")
    \/ \E a \in DOMAIN job_applications : sendEmailAndUpdateStatusSent(a, "shortlisted")
    \/ \E r \in inflight : requestServed(r)
    \/ \E r \in inflight : answerHandled(r)

SpecAsync == InitAsync /\ [][NextAsync]_vars

\* ================================================== the employer dashboard
\* jobsData.filter(j => j.is_active).length
ActiveCount(rows) == Cardinality({id \in DOMAIN rows : rows[id] = "true"})

\* job.is_active ?? true, negated: the value toggleJobActive writes
ToggledValue(is_active) == IF is_active = "false" THEN "true" ELSE "false"

\* fetchData up to its first await
fetchDataSent ==
    /\ employer.user # NULL
    /\ Cardinality(inflight) < MaxInFlight
    /\ inflight' = inflight \cup {InFlight(FreeNumber, "fetchData", 0, "")}
    /\ UNCHANGED <<dbVars, req, resp, clientVars, mailVars, resume_url,
                   filters, employer, route>>

\* a click on Activate / Deactivate of a listed job: toggleJobActive up to
\* its await
toggleJobActiveSent(jobId) ==
    /\ jobId \in DOMAIN employer.jobs
    /\ Cardinality(inflight) < MaxInFlight
    /\ inflight' = inflight \cup
          {InFlight(FreeNumber, "toggle", jobId, ToggledValue(employer.jobs[jobId]))}
    /\ UNCHANGED <<dbVars, req, resp, clientVars, mailVars, resume_url,
                   filters, employer, route>>

\* the server serves a request of the dashboard
dashboardRequestServed(r) ==
    /\ r \in inflight
    /\ r.answer = "none"
    /\ IF r.kind = "fetchData"
       THEN FetchEmployerJobs(employer.user)
       ELSE UpdateJobActive(employer.user, r.id, r.arg)
    /\ inflight' = (inflight \ {r}) \cup
          {[r EXCEPT !.answer = resp'.code,
                     !.rows = IF r.kind = "fetchData"
                              THEN [id \in resp'.rows |-> jobs[id].is_active]
                              ELSE <<>>]}
    /\ UNCHANGED <<clientVars, mailVars, resume_url, filters, employer, route>>

\* the answer arrives: fetchData sets jobs and stats.activeJobs from the
\* rows, toggleJobActive without error flips the listed job and adds one to
\* or takes one from stats.activeJobs
dashboardAnswerHandled(r) ==
    /\ r \in inflight
    /\ r.answer # "none"
    /\ inflight' = inflight \ {r}
    /\ employer' =
          IF r.kind = "fetchData"
          THEN IF r.answer = "ok"
               THEN [employer EXCEPT !.jobs = r.rows, !.activeJobs = ActiveCount(r.rows)]
               ELSE employer
          ELSE IF r.answer = "ok"
               THEN [employer EXCEPT
                       !.jobs = MarkApplicant(@, r.id, r.arg),
                       !.activeJobs = IF r.arg = "true" THEN @ + 1 ELSE @ - 1,
                       !.toggled = IF @ < MaxInFlight THEN @ + 1 ELSE @]
               ELSE [employer EXCEPT
                       !.toggled = IF @ < MaxInFlight THEN @ + 1 ELSE @]
    /\ UNCHANGED <<dbVars, req, resp, clientVars, mailVars, resume_url,
                   filters, route>>

\* user 1 has opened the dashboard and owns the active job 2; further jobs
\* of user 1 are inserted with any is_active
InitEmployer ==
    /\ user_roles = <<>>
    /\ jobs = SeededJobs
    /\ job_applications = FirstApplication
    /\ req = NoReq
    /\ resp = NoResp
    /\ tabs = [t \in Tabs |-> Tab(NULL)]
    /\ toast = "none"
    /\ applicant_email = <<"a@x">>
    /\ resume_url = <<"resumes/2">>
    /\ mail = NoMail
    /\ dash = View(NULL)
    /\ filters = NoFilters
    /\ inflight = {}
    /\ employer = Employer(1)
    /\ route = Route("EmployerDashboard", 1, "employer")

NextEmployer ==
    \/ fetchDataSent
    \/ \E j \in JobIds : toggleJobActiveSent(j)
    \/ \E r \in inflight : dashboardRequestServed(r)
    \/ \E r \in inflight : dashboardAnswerHandled(r)
    \/ \E b \in Bool3 :
          /\ InsertJob(employer.user, employer.user, b)
          /\ UNCHANGED <<clientVars, mailVars, resume_url, pageVars>>

SpecEmployer == InitEmployer /\ [][NextEmployer]_vars

\* ====================================================== the redirect effects
Pages == {"Index", "Auth", "EmployerDashboard", "JobSeekerDashboard"}
AuthRoles == {"none", "job_seeker", "employer"}

\* navigate(path) called from an effect
Navigated(page) ==
    [route EXCEPT !.page = page,
                  !.redirects = IF @ < MaxRedirects THEN @ + 1 ELSE @]

\* Index and Auth: !loading && user && role
SignedInWithRole == ~route.loading /\ route.user # NULL /\ route.role # "none"

\* the dashboard of a role: employer, and every other role in the else branch
DashboardOf(role) ==
    IF role = "employer" THEN "EmployerDashboard" ELSE "JobSeekerDashboard"

\* a guard that lets a signed-in user without role stay on the page
DashboardGuardUserOnly(role) == ~route.loading /\ route.user = NULL
\* the guard of a dashboard: !loading && (!user || role !== <its role>)
DashboardGuard(role) ==
    ~route.loading /\ (route.user = NULL \/ route.role # role)

\* the effect of Index
IndexEffect ==
    /\ route.page = "Index"
    /\ SignedInWithRole
    /\ route' = Navigated(DashboardOf(route.role))

\* the effect of Auth
AuthEffect ==
    /\ route.page = "Auth"
    /\ SignedInWithRole
    /\ route' = Navigated(DashboardOf(route.role))

\* the first effect of EmployerDashboard
EmployerDashboardEffect ==
    /\ route.page = "EmployerDashboard"
    /\ DashboardGuard("employer")
    /\ route' = Navigated("Auth")

\* the first effect of JobSeekerDashboard
JobSeekerDashboardEffect ==
    /\ route.page = "JobSeekerDashboard"
    /\ DashboardGuard("job_seeker")
    /\ route' = Navigated("Auth")

\* the page shown has an effect that navigates
RedirectPending ==
    \/ route.page \in {"Index", "Auth"} /\ SignedInWithRole
    \/ route.page = "EmployerDashboard" /\ DashboardGuard("employer")
    \/ route.page = "JobSeekerDashboard" /\ DashboardGuard("job_seeker")

\* a Sign In / Get Started link of Index
LinkToAuth ==
    /\ route.page = "Index"
    /\ ~route.loading
    /\ route' = [route EXCEPT !.page = "Auth", !.start = "Auth", !.redirects = 0]

\* useAuth has read the session and the role: loading ends
authLoaded ==
    /\ route.loading
    /\ route' = [route EXCEPT !.loading = FALSE]

\* handleSignOut of a dashboard up to the end of its await: signOut() has
\* cleared the session, useAuth holds no user and no role
handleSignOut ==
    /\ route.page \in {"EmployerDashboard", "JobSeekerDashboard"}
    /\ ~route.loading
    /\ ~route.signingOut
    /\ route.user # NULL
    /\ route' = [route EXCEPT !.user = NULL, !.role = "none", !.start = route.page,
                               !.redirects = 0, !.signingOut = TRUE]

\* handleSignOut after its await: navigate('/')
handleSignOutNavigates ==
    /\ route.signingOut
    /\ route' = [route EXCEPT !.page = "Index", !.start = "Index",
                               !.redirects = 0, !.signingOut = FALSE]

\* handleSubmit of Auth with a sign-in that succeeds: useAuth then holds the
\* user, and the role that user has (none when there is no role row)
handleSubmitSignIn(user, role) ==
    /\ route.page = "Auth"
    /\ ~route.loading
    /\ route.user = NULL
    /\ route' = Route("Auth", user, role)

\* any page is opened, with any user signed in or none, holding any role;
\* useAuth is still loading
InitRoute ==
    /\ user_roles = <<>>
    /\ jobs = SeededJobs
    /\ job_applications = FirstApplication
    /\ req = NoReq
    /\ resp = NoResp
    /\ tabs = [t \in Tabs |-> Tab(NULL)]
    /\ toast = "none"
    /\ applicant_email = <<"a@x">>
    /\ resume_url = <<"resumes/2">>
    /\ mail = NoMail
    /\ dash = View(NULL)
    /\ filters = NoFilters
    /\ inflight = {}
    /\ employer = Employer(NULL)
    /\ \E page \in Pages, user \in Callers, role \in AuthRoles :
          route = [Route(page, user, role) EXCEPT !.loading = TRUE]

routeFrame ==
    UNCHANGED <<dbVars, req, resp, clientVars, mailVars, resume_url, filters,
                inflight, employer>>

NextRoute ==
    \/ IndexEffect /\ routeFrame
    \/ AuthEffect /\ routeFrame
    \/ EmployerDashboardEffect /\ routeFrame
    \/ JobSeekerDashboardEffect /\ routeFrame
    \/ authLoaded /\ routeFrame
    \/ LinkToAuth /\ routeFrame
    \/ handleSignOut /\ routeFrame
    \/ handleSignOutNavigates /\ routeFrame
    \/ \E user \in Users, role \in AuthRoles :
          handleSubmitSignIn(user, role) /\ routeFrame

\* useAuth finishes loading, an effect whose condition holds runs (React
\* runs the effects of the page after every render) and a handler goes on
\* after its await
SpecRoute ==
    /\ InitRoute
    /\ [][NextRoute]_vars
    /\ WF_vars(authLoaded /\ routeFrame)
    /\ WF_vars((IndexEffect \/ AuthEffect \/ EmployerDashboardEffect
                   \/ JobSeekerDashboardEffect) /\ routeFrame)
    /\ WF_vars(handleSignOutNavigates /\ routeFrame)

\* ==================================================== the applicant filter
\* JavaScript numbers as far as the filter meets them
Num(n) == [k |-> "num", v |-> n]
NaN == [k |-> "nan", v |-> 0]
Infinity == [k |-> "inf", v |-> 0]

\* a < b of two such numbers: false whenever NaN is involved
JsLess(a, b) ==
    /\ a.k # "nan"
    /\ b.k # "nan"
    /\ a.k = "num"
    /\ (b.k = "inf" \/ a.v < b.v)

DigitChars == {"0", "1", "2", "3", "4", "5", "6", "7", "8", "9"}
DigitValue(c) ==
    CASE c = "0" -> 0 [] c = "1" -> 1 [] c = "2" -> 2 [] c = "3" -> 3
      [] c = "4" -> 4 [] c = "5" -> 5 [] c = "6" -> 6 [] c = "7" -> 7
      [] c = "8" -> 8 [] c = "9" -> 9

\* the value of the longest run of digits at the head of text, after acc
RECURSIVE LeadingDigits(_, _)
LeadingDigits(text, acc) ==
    IF text = <<>> \/ Head(text) \notin DigitChars
    THEN acc
    ELSE LeadingDigits(Tail(text), 10 * acc + DigitValue(Head(text)))

\* parseInt(text): an optional sign, then digits up to the first character
\* that is none; NaN when there is no digit
parseInt(text) ==
    LET neg == text # <<>> /\ Head(text) = "-"
        body == IF text # <<>> /\ Head(text) \in {"-", "+"} THEN Tail(text) ELSE text
    IN IF body = <<>> \/ Head(body) \notin DigitChars
       THEN NaN
       ELSE Num(IF neg THEN 0 - LeadingDigits(body, 0) ELSE LeadingDigits(body, 0))

\* what is left of text after its leading digits
RECURSIVE AfterDigits(_)
AfterDigits(text) ==
    IF text = <<>> \/ Head(text) \notin DigitChars THEN text ELSE AfterDigits(Tail(text))

RECURSIVE PowerOfTen(_)
PowerOfTen(n) == IF n = 0 THEN 1 ELSE 10 * PowerOfTen(n - 1)

\* the number a type="number" input holds for text, in tenths: digits, then
\* at most one decimal or a one-figure exponent
TypedTenths(text) ==
    LET whole == LeadingDigits(text, 0)
        rest == AfterDigits(text)
    IN IF rest = <<>> THEN 10 * whole
       ELSE IF Head(rest) = "." THEN 10 * whole + LeadingDigits(Tail(rest), 0)
       ELSE 10 * whole * PowerOfTen(LeadingDigits(Tail(rest), 0))

\* the rows of the list in this part: experience_years is << >> for null
\* and <<n>> for n; status is "null" for null
ExperienceOrZero(applicant) ==
    IF applicant.experience_years = <<>> THEN 0 ELSE applicant.experience_years[1]

\* applicant.status || 'pending'
StatusOrPending(applicant) ==
    IF applicant.status = "null" THEN "pending" ELSE applicant.status

\* the predicate of applicants.filter(..) in filteredApplicants
KeepsApplicant(applicant, minExperience, maxExperience, statusFilter) ==
    LET exp == Num(ExperienceOrZero(applicant))
        minExp == IF minExperience # <<>> THEN parseInt(minExperience) ELSE Num(0)
        maxExp == IF maxExperience # <<>> THEN parseInt(maxExperience) ELSE Infinity
    IN /\ ~(JsLess(exp, minExp) \/ JsLess(maxExp, exp))
       /\ statusFilter # "all" => StatusOrPending(applicant) = statusFilter

\* filteredApplicants, recomputed by useMemo from the four values
filteredApplicants(applicants, minExperience, maxExperience, statusFilter) ==
    SelectSeq(applicants,
              LAMBDA a : KeepsApplicant(a, minExperience, maxExperience, statusFilter))

\* what the two number inputs can hold, and the options of the select
ExperienceTexts ==
    {<<>>, <<"0">>, <<"1">>, <<"2">>, <<"1", ".", "5">>, <<"1", "e", "1">>}
StatusFilters == {"all", "pending", "shortlisted", "rejected"}
ShownApplicants ==
    [experience_years : {<<>>, <<1>>, <<2>>},
     status : {"null", "pending", "shortlisted"}]

setMinExperience(text) ==
    /\ filters' = [filters EXCEPT !.minExperience = text]
    /\ UNCHANGED <<dbVars, req, resp, clientVars, mailVars, resume_url,
                   inflight, employer, route>>

setMaxExperience(text) ==
    /\ filters' = [filters EXCEPT !.maxExperience = text]
    /\ UNCHANGED <<dbVars, req, resp, clientVars, mailVars, resume_url,
                   inflight, employer, route>>

setStatusFilter(value) ==
    /\ filters' = [filters EXCEPT !.statusFilter = value]
    /\ UNCHANGED <<dbVars, req, resp, clientVars, mailVars, resume_url,
                   inflight, employer, route>>

\* the view shows a fetched list of at most MaxShown applicants, the
\* filters are as handleJobSelect resets them
InitFilter ==
    /\ user_roles = <<>>
    /\ jobs = SeededJobs
    /\ job_applications = FirstApplication
    /\ req = NoReq
    /\ resp = NoResp
    /\ tabs = [t \in Tabs |-> Tab(NULL)]
    /\ toast = "none"
    /\ applicant_email = <<"a@x">>
    /\ resume_url = <<"resumes/2">>
    /\ mail = NoMail
    /\ \E n \in 0..MaxShown : \E shown \in [1..n -> ShownApplicants] :
          dash = [View(1) EXCEPT !.selectedJob = 2, !.applicants = shown]
    /\ filters = NoFilters
    /\ inflight = {}
    /\ employer = Employer(NULL)
    /\ route = Route("Index", NULL, "none")

NextFilter ==
    \/ \E text \in ExperienceTexts : setMinExperience(text)
    \/ \E text \in ExperienceTexts : setMaxExperience(text)
    \/ \E value \in StatusFilters : setStatusFilter(value)

SpecFilter == InitFilter /\ [][NextFilter]_vars

\* ==================================================================== claims
\* the request just answered is a status update of an existing application
StatusUpdateOf(a) == req.op = "updateStatus" /\ req.id = a

\* some application's status differs across the step
StatusChanged(a) ==
    /\ a \in DOMAIN job_applications
    /\ a \in DOMAIN job_applications'
    /\ job_applications'[a].status # job_applications[a].status

\* C1: an updateStatus issued by a user who does not own the application's
\* job (a job without owner included) is rejected as Forbidden, and the
\* application's row is left unchanged.
C1_NonOwnerUpdateIsForbidden ==
    \A a \in DOMAIN job_applications :
        (StatusUpdateOf(a) /\ ~is_job_owner(req.caller, job_applications[a].job_id))
            => (resp.code = "42501" /\ job_applications[a].status = req.old)

\* C2: every change of an application's status is caused by a request whose
\* authenticated caller owns the application's job, on the dashboard's direct
\* update and on the write inside send-applicant-email alike.
C2_StatusWrittenByOwnerOnly ==
    [][\A a \in AppIds :
          StatusChanged(a) => is_job_owner(req'.caller, job_applications[a].job_id)]_vars

\* C3: the applicant of an application never changes that application's
\* status, by any operation, whatever jobs the applicant owns.
C3_ApplicantNeverChangesStatus ==
    [][\A a \in AppIds :
          StatusChanged(a) => req'.caller # job_applications[a].user_id]_vars

\* the rows of the ledger for the pair (job, applicant)
PairRows(apps, job_id, user_id) ==
    {i \in DOMAIN apps : apps[i].job_id = job_id /\ apps[i].user_id = user_id}

\* C4: after any interleaving of createApplication calls from either form the
\* ledger holds at most one row per (job, applicant) pair; a call for a pair
\* that has its row ends with a Conflict (23505, shown as Already Applied) and
\* leaves the ledger unchanged, and a call for a pair without a row creates it.
C4_OneRowPerPairLoserConflicts ==
    [][/\ \A j \in JobIds, u \in Users :
             Cardinality(PairRows(job_applications', j, u)) <= 1
       /\ req'.op = "insertApplication" =>
             IF PairRows(job_applications, req'.id, req'.caller) # {}
             THEN /\ resp'.code = "23505"
                  /\ toast' = "Already Applied"
                  /\ job_applications' = job_applications
             ELSE /\ resp'.code = "ok"
                  /\ toast' = "Application Submitted!"
                  /\ job_applications' =
                        Append(job_applications,
                               [job_id |-> req'.id, user_id |-> req'.caller,
                                status |-> "pending"])]_vars

\* two tabs of one user raced for the same job: the one whose insert came
\* second was told Already Applied while its own appliedJobs still lacked the
\* job, the pair has one row and another pair has its row as well
C4_Witness ==
    /\ tabs["a"].user = tabs["b"].user
    /\ req.op = "insertApplication"
    /\ resp.code = "23505"
    /\ toast = "Already Applied"
    /\ Cardinality(PairRows(job_applications, req.id, req.caller)) = 1
    /\ \E t \in Tabs : req.id \notin tabs[t].appliedJobs
    /\ Len(job_applications) = 2

\* C5: every application row has status pending at the moment it is created,
\* also when the request supplies its own status value.
C5_CreatedPending ==
    (req.op = "insertApplication" /\ resp.code = "ok")
        => job_applications[Len(job_applications)].status = "pending"

\* C6: for the owner of the application's job, updateStatus succeeds from
\* every current status to every target status, and afterwards the ledger
\* status equals the target.
C6_OwnerUpdateSucceeds ==
    \A a \in DOMAIN job_applications :
        (StatusUpdateOf(a) /\ is_job_owner(req.caller, job_applications[a].job_id))
            => /\ resp.code = "ok"
               /\ resp.n = 1
               /\ job_applications[a].status = req.val

\* the owner moved a rejected application to shortlisted
C6_Witness ==
    \E a \in DOMAIN job_applications :
        /\ StatusUpdateOf(a)
        /\ is_job_owner(req.caller, job_applications[a].job_id)
        /\ req.old = "rejected"
        /\ req.val = "shortlisted"
        /\ job_applications[a].status = "shortlisted"

\* C7: applying updateStatus(A, s) by the owner a second time in a row leaves
\* the ledger, and the answer, exactly as they were after the first time.
C7_UpdateIdempotent ==
    [][(/\ req.op = "updateStatus"
        /\ resp.n = 1
        /\ req'.op = "updateStatus"
        /\ req'.caller = req.caller
        /\ req'.id = req.id
        /\ req'.val = req.val)
           => (/\ job_applications' = job_applications
               /\ resp'.code = "ok"
               /\ resp'.n = 1)]_vars

\* the owner's update found the application already in the target status,
\* which an earlier write had set, and answered as the first one does
C7_Witness ==
    \E a \in DOMAIN job_applications :
        /\ StatusUpdateOf(a)
        /\ resp.n = 1
        /\ req.old = req.val
        /\ req.val = "shortlisted"

\* C8: a fetch of applications by user U returns exactly the rows whose
\* applicant is U or whose job is owned by U.
C8_ReadableByApplicantOrOwner ==
    req.op = "fetchApplications"
        => resp.rows =
              {a \in DOMAIN job_applications :
                  /\ req.caller # NULL
                  /\ \/ job_applications[a].user_id = req.caller
                     \/ jobs[job_applications[a].job_id].user_id = req.caller}

\* a job owner who is not the applicant read an application of that job
C8_Witness ==
    /\ req.op = "fetchApplications"
    /\ \E a \in resp.rows :
          /\ job_applications[a].user_id # req.caller
          /\ jobs[job_applications[a].job_id].user_id = req.caller

\* the roles user u holds
RolesOf(u) == {user_roles[i].role : i \in RoleRows(u)}

\* C9: each user has at most one role; a role is written only by the user
\* for themself; once set it is never changed or removed; and a second
\* setRole by that user fails with Conflict (23505).
C9_RoleSetOnceBySelf ==
    [][\A u \in Users :
          /\ Cardinality(RoleRows(u)') <= 1
          /\ RolesOf(u) # {} => RolesOf(u)' = RolesOf(u)
          /\ RolesOf(u)' # RolesOf(u) => (req'.op = "insertRole" /\ req'.caller = u)
          /\ (/\ req'.op = "insertRole"
              /\ req'.caller = u
              /\ req'.id = u
              /\ RolesOf(u) # {}) => (resp'.code = "23505" /\ resp'.n = 0)]_vars

\* a user who has a role asked for the other role and got the conflict
C9_Witness ==
    /\ req.op = "insertRole"
    /\ req.caller = req.id
    /\ resp.code = "23505"
    /\ RolesOf(req.id) # {}
    /\ req.val \notin RolesOf(req.id)

\* C10: a job is visible to other users only while it is active, and it is
\* visible to its owner whatever its active flag: the owner's deactivation
\* takes effect and the job stays in the owner's own list.
C10_OwnerSeesOwnJobWhateverFlag ==
    /\ \A u \in Callers : \A j \in JobsVisibleTo(u) :
          jobs[j].user_id # u => jobs[j].is_active = "true"
    /\ \A j \in DOMAIN jobs :
          jobs[j].user_id # NULL => j \in JobsVisibleTo(jobs[j].user_id)
    /\ (/\ req.op = "updateJob"
        /\ req.id \in DOMAIN jobs
        /\ req.caller # NULL
        /\ jobs[req.id].user_id = req.caller)
           => (resp.code = "ok" /\ jobs[req.id].is_active = req.val)

\* C11: a job row changes only by a request of its owner; an update of the
\* active flag issued by anybody else reaches no row and leaves the jobs
\* table as it was.
C11_OnlyOwnerChangesJob ==
    [][/\ \A j \in DOMAIN jobs :
             jobs'[j] # jobs[j] => SqlEq(jobs[j].user_id, req'.caller)
       /\ (/\ req'.op = "updateJob"
           /\ req'.id \in DOMAIN jobs
           /\ ~SqlEq(jobs[req'.id].user_id, req'.caller))
              => (jobs' = jobs /\ resp'.n = 0)]_vars

\* a signed-in user asked to deactivate an active job of another user and
\* the request reached no row
C11_Witness ==
    /\ req.op = "updateJob"
    /\ req.id \in DOMAIN jobs
    /\ req.caller # NULL
    /\ jobs[req.id].user_id # NULL
    /\ jobs[req.id].user_id # req.caller
    /\ req.old = "true"
    /\ req.val = "false"
    /\ resp.n = 0
    /\ jobs[req.id].is_active = "true"

\* C12: a job that is created has the authenticated caller as its owner; a
\* creation request that does not create a job was rejected with 42501 and
\* left the jobs table as it was (so a request naming another owner, or
\* none, creates nothing).
C12_CreatedJobOwnedByCaller ==
    [][req'.op = "insertJob" =>
          IF resp'.code = "ok"
          THEN /\ req'.caller # NULL
               /\ jobs' = Append(jobs, jobs'[Len(jobs')])
               /\ jobs'[Len(jobs')].user_id = req'.caller
          ELSE resp'.code = "42501" /\ jobs' = jobs]_vars

\* a user created a job of their own, and a later creation request of a
\* signed-in caller was rejected
C12_Witness ==
    /\ Len(jobs) > Len(SeededJobs)
    /\ jobs[Len(jobs)].user_id \in Users
    /\ req.op = "insertJob"
    /\ req.caller # NULL
    /\ resp.code = "42501"

\* C13: a job is created only by a caller whose role is employer and an
\* application only by a caller whose role is job_seeker; a creation request
\* of a caller with the other role, or with none, adds no row.
C13_RolesGateCreation ==
    [][/\ Len(jobs') > Len(jobs) => RolesOf(req'.caller) = {"employer"}
       /\ Len(job_applications') > Len(job_applications)
             => RolesOf(req'.caller) = {"job_seeker"}]_vars

\* C14: whenever the send of send-applicant-email fails (the provider
\* answers with an error, or the call throws) no application changes and the
\* caller is given an error: the function does not answer 200 and an employer
\* who started it from the view is shown Email Failed.
C14_FailedSendAppliesNothing ==
    [][(req'.op = "sendApplicantEmail" /\ mail'.outcome \in {"refused", "throws"})
          => /\ job_applications' = job_applications
             /\ resp'.code # "200"
             /\ dash.pc = "invoking" => toast' = "Email Failed"]_vars

\* C15: an invocation of send-applicant-email whose applicant e-mail is
\* missing or empty is answered with an error, delivers no e-mail and changes
\* no application; the action of the view on such an applicant invokes
\* nothing.
C15_MissingEmailChangesNothing ==
    [][/\ (req'.op = "sendApplicantEmail" /\ mail'.to = "")
             => /\ resp'.code # "200"
                /\ mail'.outcome # "sent"
                /\ job_applications' = job_applications
       /\ (dash.pc = "idle" /\ dash'.pc = "invoking"
              /\ dash'.fn = "send-applicant-email")
             => EmailOf(dash'.sendingEmail) # ""]_vars

\* C16: an invocation of either handler makes at most one call of
\* resend.emails.send, and an invoke of the view that ended in a failure
\* leaves the view idle: nothing is invoked again without a new action.
C16_AtMostOneSendAttempt ==
    [][/\ mail'.attempts <= 1
       /\ (dash.pc = "invoking" /\ dash' # dash /\ resp'.code # "200")
             => (dash'.pc = "idle" /\ dash'.sendingEmail = 0
                   /\ ~dash'.sendingToBoss)]_vars

\* an invoke started from the view ended with a send that failed, after
\* one attempt, and the view is idle again
C16_Witness ==
    /\ req.op \in {"sendApplicantEmail", "sendToBoss"}
    /\ req.caller = dash.user
    /\ mail.outcome \in {"refused", "throws"}
    /\ mail.attempts = 1
    /\ toast \in {"Email Failed", "Failed to Send"}
    /\ dash.pc = "idle"

\* C17: send-to-boss invoked with an empty recipient or an empty applicant
\* list answers with an error without calling send, and changes no table;
\* the view invokes it only with a recipient and at least one applicant.
C17_BulkNotifyValidates ==
    [][/\ (req'.op = "sendToBoss" /\ (req'.val = "" \/ req'.id = 0))
             => /\ resp'.code = "500"
                /\ mail'.attempts = 0
                /\ mail'.outcome = "none"
                /\ dbVars' = dbVars
       /\ (dash.pc = "idle" /\ dash'.pc = "invoking" /\ dash'.fn = "send-to-boss")
             => (dash'.arg # "" /\ ApplicantsToSend # {})]_vars

\* the function was called with a recipient and an empty applicant list
C17_Witness ==
    /\ req.op = "sendToBoss"
    /\ req.val # ""
    /\ req.id = 0
    /\ resp.code = "500"
    /\ mail.attempts = 0

\* C18: a status change requested for an application id that does not
\* exist is answered with an error, by the direct update and by
\* send-applicant-email alike, and no row is created or changed.
C18_UnknownApplicationIsAnError ==
    [][(/\ req'.op \in {"updateStatus", "sendApplicantEmail"}
        /\ req'.id \notin DOMAIN job_applications)
          => /\ resp'.code \notin {"ok", "200"}
             /\ job_applications' = job_applications]_vars

\* C19: after a failed read the view shows an empty list and a warning:
\* a failed fetch of the applicants leaves no applicant on display, a failed
\* fetch of the employer's jobs leaves no job on display, each with the
\* Error toast; and the applicants on display are always those of the job
\* selected, never those of an earlier selection.
C19_FailedReadShowsEmptyList ==
    [][/\ (req'.op = "fetchApplications" /\ resp'.code = "error")
             => (DOMAIN dash'.applicants = {} /\ toast' = "Error")
       /\ (req'.op = "fetchEmployerJobs" /\ resp'.code = "error" /\ req' # req)
             => (dash'.jobs = {} /\ toast' = "Error")
       /\ \A id \in DOMAIN dash'.applicants :
             job_applications[id].job_id = dash'.selectedJob]_vars

\* C20: every started send-and-update action of the view ends: once the
\* in-progress marker sendingEmail or sendingToBoss is set it is eventually
\* cleared, whatever becomes of the call of the function.
C20_StartedActionEnds ==
    (dash.sendingEmail # 0 \/ dash.sendingToBoss)
        ~> (dash.sendingEmail = 0 /\ ~dash.sendingToBoss)

\* C21: every application row that one of the two forms creates carries a
\* non-empty resume reference.
C21_CreatedRowHasResume ==
    [][Len(job_applications') > Len(job_applications)
          => /\ Len(resume_url') = Len(job_applications')
             /\ resume_url'[Len(resume_url')] # ""]_vars


\* C22: the filtered list is exactly the sub-list, in the order of the input,
\* of the applicants whose experience (null as 0) lies between the minimum and
\* the maximum typed (empty minimum 0, empty maximum unbounded) and whose
\* status (null as pending) is the one of the status filter, or the filter
\* is 'all'.
C22_FilterKeepsExactlyTheRange ==
    filteredApplicants(dash.applicants, filters.minExperience,
                       filters.maxExperience, filters.statusFilter)
      = SelectSeq(dash.applicants,
                  LAMBDA a :
                    /\ filters.minExperience # <<>>
                         => TypedTenths(filters.minExperience) <= 10 * ExperienceOrZero(a)
                    /\ filters.maxExperience # <<>>
                         => 10 * ExperienceOrZero(a) <= TypedTenths(filters.maxExperience)
                    /\ \/ filters.statusFilter = "all"
                       \/ StatusOrPending(a) = filters.statusFilter)

\* C23: while a send-to-boss call made by the view is under way, every
\* applicant it names has status shortlisted in the view.
C23_OnlyShortlistedAreForwarded ==
    (dash.pc = "invoking" /\ dash.fn = "send-to-boss")
       => \A id \in ApplicantsToSend : dash.applicants[id] = "shortlisted"

\* C24: a status update (the request of updateApplicationStatus, or the write
\* of send-applicant-email) changes nothing but the status of the application
\* it names: the application's job, applicant, e-mail address and resume,
\* every other application, every job and every role stay as they were; and
\* when the update is answered with an error, the list of applicants on
\* display stays as it was.
C24_UpdateChangesStatusOnly ==
    [][req'.op \in {"updateStatus", "sendApplicantEmail"}
          => /\ DOMAIN job_applications' = DOMAIN job_applications
             /\ \A a \in DOMAIN job_applications :
                   /\ job_applications'[a].job_id = job_applications[a].job_id
                   /\ job_applications'[a].user_id = job_applications[a].user_id
                   /\ a # req'.id => job_applications'[a] = job_applications[a]
             /\ applicant_email' = applicant_email
             /\ resume_url' = resume_url
             /\ jobs' = jobs
             /\ user_roles' = user_roles
             /\ resp'.code \notin {"ok", "200"}
                   => dash'.applicants = dash.applicants]_vars

\* the view changed the status of one application, the other application
\* kept the status it was created with; and an update was answered with an
\* error
C24_Witness ==
    /\ req.op = "updateStatus"
    /\ resp.code = "ok"
    /\ resp.n = 1
    /\ toast = "Status Updated"
    /\ job_applications[req.id].status = "reviewed"
    /\ \E a \in DOMAIN job_applications :
          a # req.id /\ job_applications[a].status = "pending"

\* C25: when an invoke of send-applicant-email made by the view ends, the
\* view shows the new status or Email Sent only if the handler answered 200;
\* the handler answers 200 only when the send was issued and the status write
\* returned without error; and when the write returns an error after the
\* e-mail went out, the handler answers 500, the view reports the failure and
\* the status on display stays as it was.
C25_SuccessShownOnlyAfterWrite ==
    [][(dash.pc = "invoking" /\ dash.fn = "send-applicant-email" /\ dash'.pc = "idle")
          => /\ (toast' = "Email Sent!" \/ dash'.applicants # dash.applicants)
                   => resp'.code = "200"
             /\ resp'.code = "200"
                   => /\ mail'.attempts = 1
                      /\ mail'.outcome # "throws"
                      /\ mail'.write = "ok"
                      /\ job_applications'[dash.sendingEmail].status = dash.arg
             /\ (mail'.outcome = "sent" /\ mail'.write = "error")
                   => /\ resp'.code = "500"
                      /\ toast' = "Email Failed"
                      /\ job_applications' = job_applications
                      /\ dash'.applicants = dash.applicants]_vars

\* the e-mail went out, the write returned an error: the view reports the
\* failure and still shows the application as pending
C25_Witness ==
    /\ req.op = "sendApplicantEmail"
    /\ mail.outcome = "sent"
    /\ mail.write = "error"
    /\ resp.code = "500"
    /\ toast = "Email Failed"
    /\ dash.pc = "idle"
    /\ req.id \in DOMAIN dash.applicants
    /\ dash.applicants[req.id] = "pending"
    /\ job_applications[req.id].status = "pending"

\* C26: while an e-mail request for an application is in flight, no request
\* (status update or e-mail) is started for the same application.
C26_NoSecondActionWhileInFlight ==
    [][\A r \in inflight' \ inflight :
          (r.answer = "none" /\ r.kind \in {"update", "email"})
             => ~\E q \in inflight : q.kind = "email" /\ q.id = r.id]_vars

\* C27: whenever no fetch of applicants is in flight, every applicant on
\* display applied to the job that is selected.
C27_ListIsOfSelectedJob ==
    (\A r \in inflight : r.kind # "fetch")
       => \A id \in DOMAIN dash.applicants :
             job_applications[id].job_id = dash.selectedJob

\* C28: whenever no request is in flight, the status on display of every
\* application is its status in the table.
C28_LocalStatusIsLedgerStatus ==
    inflight = {}
       => \A id \in DOMAIN dash.applicants :
             dash.applicants[id] = job_applications[id].status

C30_RedirectsSettle ==
    /\ [](route.loading => route.redirects = 0)
    /\ [](route.redirects <= 2)
    /\ []((~route.loading /\ ~RedirectPending)
            => /\ (route.user # NULL /\ route.role = "employer")
                     => route.page = "EmployerDashboard"
               /\ (route.user # NULL /\ route.role = "job_seeker")
                     => route.page = "JobSeekerDashboard"
               /\ route.page = "EmployerDashboard"
                     => (route.user # NULL /\ route.role = "employer"))
    /\ (RedirectPending ~> ~RedirectPending)
    /\ <>(~route.loading /\ ~RedirectPending)

\* a signed-in employer who opened the job-seeker dashboard was sent to Auth
\* and from there to the employer dashboard, where no effect navigates
C30_Witness ==
    /\ route.start = "JobSeekerDashboard"
    /\ route.page = "EmployerDashboard"
    /\ route.user # NULL
    /\ route.role = "employer"
    /\ route.redirects = 2
    /\ ~route.loading
    /\ ~RedirectPending
====
